---- MODULE Spec2Model ----
(***************************************************************************)
(* School-Map-Generator: the application controller (App), the record      *)
(* mapper (fetchSchoolData) and the map adapter (MapComponent).             *)
(*                                                                         *)
(* Strings are sequences of tokens (a token is a character or a word that  *)
(* the code never looks inside).  Numbers are records [kind, v] so that    *)
(* NaN and the infinities of IEEE doubles are values of the model.         *)
(* JavaScript object identity of a School is the field "load": the number  *)
(* of the load that created the object.                                    *)
(*                                                                         *)
(* One action is one event of the page's event loop (a user event, a timer *)
(* tick, a Papa.parse callback, a script finishing to load) together with  *)
(* the React render it causes: the setState calls of one handler are       *)
(* rendered as one batch, and the effects they trigger (and the renders    *)
(* those effects trigger in turn) run before the next event is handled.    *)
(***************************************************************************)
EXTENDS Integers, Sequences, FiniteSets, TLC

\* ------------------------------------------------------------------ bounds
MaxLoads == 2
MaxRows == 2

\* --------------------------------------------------------- program constants
maxAttempts == 50
MAP_ZOOM == 11
SelectZoom == 15

NULL == [null |-> TRUE]

\* new Date() when the clock reads t
Date(t) == [time |-> t]

\* ------------------------------------------------------------------ numbers
NaN == [kind |-> "nan", v |-> 0]
Fin(n) == [kind |-> "fin", v |-> n]
Inf(sign) == [kind |-> "inf", v |-> sign]

isNaN(x) == x.kind = "nan"
isFinite(x) == x.kind = "fin"

\* { lat: 40.7128, lng: -74.0060 }, to whole degrees
MAP_CENTER == [lat |-> Fin(40), lng |-> Fin(-74)]

\* ------------------------------------------------------------------ strings
SP == " "
DigitVal == ("0" :> 0) @@ ("1" :> 1) @@ ("2" :> 2) @@ ("3" :> 3) @@ ("4" :> 4)
            @@ ("5" :> 5) @@ ("6" :> 6) @@ ("7" :> 7) @@ ("8" :> 8) @@ ("9" :> 9)
DigitTok == <<"0", "1", "2", "3", "4", "5", "6", "7", "8", "9">>
IsDigit(c) == c \in DOMAIN DigitVal

Drop(s, n) == SubSeq(s, n + 1, Len(s))

RECURSIVE LeadingSpaces(_)
LeadingSpaces(s) ==
  IF s # <<>> /\ Head(s) = SP THEN 1 + LeadingSpaces(Tail(s)) ELSE 0

RECURSIVE TrailingSpaces(_)
TrailingSpaces(s) ==
  IF s # <<>> /\ s[Len(s)] = SP THEN 1 + TrailingSpaces(SubSeq(s, 1, Len(s) - 1)) ELSE 0

TrimStart(s) == Drop(s, LeadingSpaces(s))

\* variant: a trim that leaves trailing white space in place
TrimLeadingOnly(s) == TrimStart(s)

\* String.prototype.trim
Trim(s) ==
  LET t == TrimStart(s) IN SubSeq(t, 1, Len(t) - TrailingSpaces(t))

RECURSIVE DigitRun(_)
DigitRun(s) == IF s # <<>> /\ IsDigit(Head(s)) THEN 1 + DigitRun(Tail(s)) ELSE 0

RECURSIVE DecimalValue(_)
DecimalValue(s) ==
  IF s = <<>> THEN 0 ELSE 10 * DecimalValue(SubSeq(s, 1, Len(s) - 1)) + DigitVal[s[Len(s)]]

\* parseFloat on a string: leading white space skipped, an optional sign,
\* then "Infinity" or the longest run of digits; whatever follows is ignored.
\* (Digit strings stand for decimal literals; fractions are not modelled.)
parseFloatStr(s) ==
  LET t == TrimStart(s)
      signed == t # <<>> /\ Head(t) \in {"-", "+"}
      sign == IF t # <<>> /\ Head(t) = "-" THEN -1 ELSE 1
      u == IF signed THEN Tail(t) ELSE t
      n == DigitRun(u)
  IN  IF u # <<>> /\ Head(u) = "Infinity" THEN Inf(sign)
      ELSE IF n = 0 THEN NaN
      ELSE Fin(sign * DecimalValue(SubSeq(u, 1, n)))

\* row[column]: undefined when the row has no such key
Has(row, col) == col \in DOMAIN row

\* parseFloat(row[column]); parseFloat(undefined) is NaN
parseFloat(row, col) == IF Has(row, col) THEN parseFloatStr(row[col]) ELSE NaN

\* row[column] || dflt
OrElse(row, col, dflt) == IF Has(row, col) /\ row[col] # <<>> THEN row[col] ELSE dflt

RECURSIVE DecimalDigits(_)
DecimalDigits(n) ==
  IF n < 10 THEN <<DigitTok[n + 1]>> ELSE Append(DecimalDigits(n \div 10), DigitTok[(n % 10) + 1])

\* `${x}` for a number
NumToString(x) ==
  IF x.kind = "nan" THEN <<"NaN">>
  ELSE IF x.kind = "inf" THEN (IF x.v < 0 THEN <<"-", "Infinity">> ELSE <<"Infinity">>)
  ELSE IF x.v < 0 THEN <<"-">> \o DecimalDigits(-x.v) ELSE DecimalDigits(x.v)

\* String.prototype.includes
Includes(s, t) ==
  \E i \in 0..(Len(s) - Len(t)) : SubSeq(s, i + 1, i + Len(t)) = t

LowerMap == ("L" :> "l") @@ ("I" :> "i") @@ ("N" :> "n") @@ ("A" :> "a")
ToLowerCase(s) == [i \in 1..Len(s) |-> IF s[i] \in DOMAIN LowerMap THEN LowerMap[s[i]] ELSE s[i]]

RECURSIVE Join(_, _)
Join(parts, sep) ==
  IF parts = <<>> THEN <<>>
  ELSE IF Len(parts) = 1 THEN parts[1]
  ELSE parts[1] \o sep \o Join(Tail(parts), sep)

RECURSIVE FilterNonEmpty(_)
FilterNonEmpty(parts) ==
  IF parts = <<>> THEN <<>>
  ELSE IF Head(parts) = <<>> THEN FilterNonEmpty(Tail(parts))
  ELSE <<Head(parts)>> \o FilterNonEmpty(Tail(parts))

\* ------------------------------------------------------------ record mapper
COL_NAME == "School Name"
COL_ADDRESS == "Street Address"
COL_CITY == "City"
COL_STATE == "State"
COL_ZIP == "Zip Code"
COL_LAT == "Latitude"
COL_LNG == "Longitude"
COL_STATUS == "Status"
COL_DESIGNATION == "Administrative Designation"
COL_DISTRICT == "District"

SchoolStatus ==
  [Defined |-> <<"Defined">>, Pending |-> <<"Pending">>, NoService |-> <<"No", SP, "Service">>]
StatusValues == {SchoolStatus.Defined, SchoolStatus.Pending, SchoolStatus.NoService}

UnnamedSchool == <<"Unnamed", SP, "School">>
NoAddressProvided == <<"No", SP, "Address", SP, "Provided">>
NotAvailable == <<"N/A">>

\* variant: address parts joined without the filter(Boolean)
fullAddressUnfiltered(street, city, state, zip) ==
  Join(<<street, city, state>>, <<",", SP>>)
    \o (IF zip # <<>> THEN <<SP>> \o zip ELSE <<>>)

\* [street, city, state].filter(Boolean).join(', ') + (zip ? ` ${zip}` : '')
fullAddress(street, city, state, zip) ==
  Join(FilterNonEmpty(<<street, city, state>>), <<",", SP>>)
    \o (IF zip # <<>> THEN <<SP>> \o zip ELSE <<>>)

\* `${lat}-${lng}-${index}`
SchoolId(lat, lng, index) ==
  NumToString(lat) \o <<"-">> \o NumToString(lng) \o <<"-">> \o DecimalDigits(index)

\* the row index an identifier ends with (the digits after its last "-")
IdIndex(id) ==
  LET p == CHOOSE k \in 1..Len(id) : id[k] = "-" /\ \A j \in (k + 1)..Len(id) : id[j] # "-"
  IN  DecimalValue(SubSeq(id, p + 1, Len(id)))

\* the (row, index) => ... callback of results.data.map; NULL for a skipped row.
\* "load" stands for the identity of the object the callback allocates.
MapRow(row, index, load) ==
  LET lat == parseFloat(row, COL_LAT)
      lng == parseFloat(row, COL_LNG)
      sheetStatus == Trim(OrElse(row, COL_STATUS, <<>>))
      addr == fullAddress(OrElse(row, COL_ADDRESS, <<>>), OrElse(row, COL_CITY, <<>>),
                          OrElse(row, COL_STATE, <<>>), OrElse(row, COL_ZIP, <<>>))
  IN  IF isNaN(lat) \/ isNaN(lng) THEN NULL
      ELSE IF sheetStatus \notin StatusValues THEN NULL
      ELSE [id |-> SchoolId(lat, lng, index),
            name |-> OrElse(row, COL_NAME, UnnamedSchool),
            address |-> IF addr # <<>> THEN addr ELSE NoAddressProvided,
            latitude |-> lat,
            longitude |-> lng,
            status |-> sheetStatus,
            administrativeDesignation |-> OrElse(row, COL_DESIGNATION, NotAvailable),
            district |-> OrElse(row, COL_DISTRICT, NotAvailable),
            load |-> load]

\* results.data.map(...).filter(item => item !== null)
MapRows(data, load) ==
  SelectSeq([i \in 1..Len(data) |-> MapRow(data[i], i - 1, load)], LAMBDA x : x # NULL)

FetchErrorPrefix == <<"Could", "not", "fetch", "or", "parse", "CSV", "file", "from", "URL.">>
ParseFailedMessage == <<"Failed", "to", "parse", "CSV", "data.">>

\* variant: a mapping that throws on a skipped row, so the batch is rejected
CompleteRejectsOnSkippedRow(data, load) ==
  IF \E i \in 1..Len(data) : MapRow(data[i], i - 1, load) = NULL
    THEN [resolved |-> FALSE, value |-> <<>>, message |-> ParseFailedMessage]
    ELSE [resolved |-> TRUE, value |-> MapRows(data, load), message |-> <<>>]

\* the complete callback: resolve(parsedData); the mapping has no throwing path
complete(data, load) == [resolved |-> TRUE, value |-> MapRows(data, load), message |-> <<>>]

\* the error callback: reject(new Error(`Could not fetch or parse ... ${error.message}`))
PapaError(msg) == [resolved |-> FALSE, value |-> <<>>, message |-> FetchErrorPrefix \o msg]

\* ------------------------------------------------------------------- state
VARIABLES
  schools,          \* App: useState<School[]>([])
  isLoading,        \* App: useState(true)
  error,            \* App: useState<AppError | null>(null)
  searchTerm,       \* App: useState('')
  selectedSchool,   \* App: useState<School | null>(null)
  lastUpdated,      \* App: useState<Date | null>(null); a Date is the clock's reading
  loads,            \* the loadData() calls in flight: [load, waiting, attempts]
  started,          \* number of loadData() calls made so far
  clock,            \* what new Date() returns next, minus one
  google,           \* window.google: "undefined", "nomaps" (no .maps) or "ok"
  Papa,             \* window.Papa is defined
  mc,               \* MapComponent: mounted, map, markersRef, markers shown, popup, view
  mapsConstructed,  \* number of google.maps.Map objects constructed so far
  completed,        \* history: the loads that have finished, in order of completion
  results,          \* results.data of the last complete callback
  settled           \* how the last fetchSchoolData promise settled

vars == <<schools, isLoading, error, searchTerm, selectedSchool, lastUpdated, loads,
          started, clock, google, Papa, mc, mapsConstructed, completed, results, settled>>

appVars == <<schools, isLoading, error, searchTerm, selectedSchool, lastUpdated>>

Range(f) == {f[x] : x \in DOMAIN f}
EmptyRegistry == [x \in {} |-> NULL]

\* --------------------------------------------------------- inputs (bounded)
Row(lat, lng, status, name) ==
  (COL_LAT :> lat) @@ (COL_LNG :> lng) @@ (COL_STATUS :> status) @@ (COL_NAME :> name)

RowLin == Row(<<"1">>, <<"2">>, <<SP, "Defined">>, <<"L", "i", "n">>)
RowInfinite == Row(<<"Infinity">>, <<"-", "4">>, <<"No", SP, "Service">>, <<"I", "n">>)
RowBadStatus == Row(<<"1">>, <<"2">>, <<"defined">>, <<"L", "i", "n">>)

RowPool == {RowLin, RowInfinite, RowBadStatus}

RECURSIVE SeqsUpTo(_, _)
SeqsUpTo(S, n) ==
  IF n = 0 THEN {<<>>}
  ELSE LET shorter == SeqsUpTo(S, n - 1)
       IN  shorter \cup {Append(q, x) : q \in {t \in shorter : Len(t) = n - 1}, x \in S}

Datasets == SeqsUpTo(RowPool, MaxRows)

TermPool == {<<>>, <<SP>>, <<"L", "I">>, <<"z">>}
PapaMessages == {<<"Not", "Found">>, <<"docs.", "google", ".com", "unreachable">>}

\* ----------------------------------------------------------- App: messages
TimeoutMessage(name) ==
  <<"The", "'", name, "'", "library", "failed", "to", "load", "from", "the", "CDN,",
    "please", "check", "your", "network", "connection.">>
NoMapsMessage ==
  <<"Google", "Maps", "API", "script", "loaded,", "but", "maps", "object", "is", "not",
    "available.">>

\* the remediation hint chosen in the catch block of loadData
errorDetails(errorMessage) ==
  IF Includes(errorMessage, <<"google">>) \/ Includes(errorMessage, <<"Google">>)
    THEN "apiKeyHint"
  ELSE IF Includes(errorMessage, <<"Papa">>) THEN "papaParseHint"
  ELSE "sheetUrlHint"

\* ------------------------------------------------------------ MapComponent
Unmounted ==
  [mounted |-> FALSE, map |-> 0, markers |-> EmptyRegistry, onMap |-> {},
   popup |-> NULL, center |-> NULL, zoom |-> 0]

\* renderContent of App
renderContent(r) ==
  IF r.isLoading /\ Len(r.schools) = 0 THEN "spinner"
  ELSE IF r.error # NULL THEN "error"
  ELSE "map"

\* useEffect(..., [map]): construct the map and the info window
mapInitEffect(r) ==
  IF r.mc.mounted /\ r.mc.map = 0
    THEN [r EXCEPT !.mc.map = r.mapsConstructed + 1,
                   !.mc.center = MAP_CENTER,
                   !.mc.zoom = MAP_ZOOM,
                   !.mc.popup = NULL,
                   !.mapsConstructed = r.mapsConstructed + 1]
    ELSE r

\* markersRef after schools.forEach(... markersRef.current.set(school.id, marker))
RegistryOf(ss) ==
  [id \in {ss[i].id : i \in 1..Len(ss)} |->
     ss[CHOOSE i \in 1..Len(ss) :
          ss[i].id = id /\ \A j \in 1..Len(ss) : ss[j].id = id => j <= i]]

\* useEffect(..., [map, schools, onSchoolSelect]): redraw the markers.
\* A marker is named by the School object its listeners close over.
markersEffect(r) ==
  IF r.mc.map # 0 /\ Len(r.schools) > 0
    THEN [r EXCEPT !.mc.markers = RegistryOf(r.schools),
                   !.mc.onMap = (r.mc.onMap \ Range(r.mc.markers)) \cup Range(r.schools)]
    ELSE r

\* variant: a click that closes the popup when it is already open on the marker
clickListenerToggles(r, school) ==
  [r EXCEPT !.selectedSchool = school,
            !.mc.popup = IF r.mc.popup = school THEN NULL ELSE school]

\* the marker's click listener: onSchoolSelect(school); setContent; open
clickListener(r, school) ==
  [r EXCEPT !.selectedSchool = school, !.mc.popup = school]

\* variant: a selection effect that triggers the click on the first marker of
\* the registry instead of the selected school's marker
selectionEffectFirstMarker(r) ==
  IF r.mc.map # 0 /\ r.selectedSchool # NULL /\ r.selectedSchool.id \in DOMAIN r.mc.markers
    THEN clickListener(
           [r EXCEPT !.mc.center = [lat |-> r.selectedSchool.latitude,
                                    lng |-> r.selectedSchool.longitude],
                     !.mc.zoom = SelectZoom],
           r.mc.markers[CHOOSE id \in DOMAIN r.mc.markers :
                          \A other \in DOMAIN r.mc.markers :
                            IdIndex(id) <= IdIndex(other)])
    ELSE r

\* useEffect(..., [map, selectedSchool]): pan, zoom, trigger a click on the marker
selectionEffect(r) ==
  IF r.mc.map # 0 /\ r.selectedSchool # NULL /\ r.selectedSchool.id \in DOMAIN r.mc.markers
    THEN clickListener(
           [r EXCEPT !.mc.center = [lat |-> r.selectedSchool.latitude,
                                    lng |-> r.selectedSchool.longitude],
                     !.mc.zoom = SelectZoom],
           r.mc.markers[r.selectedSchool.id])
    ELSE r

\* React: one render of App after a state update, with the effects whose
\* dependencies changed.  prevSelected is the selectedSchool prop of the
\* previous render of MapComponent.
RenderOnce(r, prevSelected) ==
  IF renderContent(r) # "map" THEN [r EXCEPT !.mc = Unmounted]
  ELSE IF ~r.mc.mounted
    THEN selectionEffect(markersEffect(mapInitEffect([r EXCEPT !.mc.mounted = TRUE])))
  ELSE LET r1 == markersEffect(r)
       IN  IF r.selectedSchool # prevSelected THEN selectionEffect(r1) ELSE r1

\* React: render, and render again while an effect has set the selection to
\* another value (the click triggered by the selection effect calls
\* onSchoolSelect), until no effect sets state.
RECURSIVE Commit(_, _)
Commit(r, prevSelected) ==
  LET q == RenderOnce(r, prevSelected)
  IN  IF q.selectedSchool # r.selectedSchool THEN Commit(q, r.selectedSchool) ELSE q

\* the number of renders Commit makes
RECURSIVE Renders(_, _)
Renders(r, prevSelected) ==
  LET q == RenderOnce(r, prevSelected)
  IN  IF q.selectedSchool # r.selectedSchool THEN 1 + Renders(q, r.selectedSchool) ELSE 1

\* the React state the render reads, as one record
Ui == [schools |-> schools, isLoading |-> isLoading, error |-> error,
       selectedSchool |-> selectedSchool, mc |-> mc, mapsConstructed |-> mapsConstructed]

\* the state after a batch of setState calls has been rendered and committed
Rendered(r) ==
  /\ schools' = r.schools
  /\ isLoading' = r.isLoading
  /\ error' = r.error
  /\ selectedSchool' = r.selectedSchool
  /\ mc' = r.mc
  /\ mapsConstructed' = r.mapsConstructed

\* --------------------------------------------------------------------- App
InitApp ==
  /\ schools = <<>>
  /\ isLoading = TRUE
  /\ error = NULL
  /\ searchTerm = <<>>
  /\ selectedSchool = NULL
  /\ lastUpdated = NULL
  /\ loads = {}
  /\ started = 0
  /\ clock = 0
  /\ google = "undefined"
  /\ Papa = FALSE
  /\ mc = Unmounted
  /\ mapsConstructed = 0
  /\ completed = <<>>

Init ==
  /\ InitApp
  /\ results = <<>>
  /\ settled = NULL

\* the committed state after a handler turned r0 into r by setState calls;
\* React skips the render when nothing changed
Updated(r0, r) == IF r = r0 THEN r0 ELSE Commit(r, r0.selectedSchool)

\* render a batch of state updates
Update(r) == Rendered(Updated(Ui, r))

\* variant: a loadData that does not raise the loading flag
startLoadingUnflagged(r) == [r EXCEPT !.error = NULL]

\* setIsLoading(true); setError(null);
startLoading(r) == [r EXCEPT !.isLoading = TRUE, !.error = NULL]

\* loadData up to its first await: setIsLoading(true); setError(null);
\* waitForLibrary('google') starts its interval with attempts = 0
loadDataStart ==
  /\ started < MaxLoads
  /\ started' = started + 1
  /\ loads' = loads \cup {[load |-> started + 1, waiting |-> "google", attempts |-> 0]}
  /\ Update(startLoading(Ui))
  /\ UNCHANGED <<searchTerm, lastUpdated, clock, google, Papa, completed, results, settled>>

\* useEffect(() => { loadData(); }, [loadData]) on mount
Mount ==
  /\ started = 0
  /\ loadDataStart

\* variant: header controls that stay rendered in the Error state
ControlsOfferedInError == ~isLoading

\* the header controls are rendered: {!isLoading && !error && (...)}
ControlsOffered == ~isLoading /\ error = NULL

\* variant: a refresh button shown and enabled while a load is in flight
RefreshEnabledWhileLoading == error = NULL

\* the refresh button can be activated: it is rendered, and disabled={isLoading}

RefreshEnabled == ControlsOffered /\ ~isLoading

\* <button onClick={loadData} disabled={isLoading}>
Refresh ==
  /\ started > 0
  /\ RefreshEnabled
  /\ loadDataStart

\* loadData after fetchSchoolData resolved: setSchools(data); setLastUpdated(new Date());
\* finally setIsLoading(false)
loadDataSucceeds(l, data, kind) ==
  /\ loads' = loads \ {l}
  /\ completed' = Append(completed, [load |-> l.load, kind |-> kind])
  /\ clock' = clock + 1
  /\ lastUpdated' = Date(clock + 1)
  /\ Rendered(Commit([Ui EXCEPT !.schools = data, !.isLoading = FALSE], selectedSchool))

\* the catch block of loadData: setError({message, details}); setLastUpdated(null);
\* finally setIsLoading(false)
loadDataFails(l, message, kind) ==
  /\ loads' = loads \ {l}
  /\ completed' = Append(completed, [load |-> l.load, kind |-> kind])
  /\ lastUpdated' = NULL
  /\ Rendered(Commit([Ui EXCEPT !.error = [message |-> message, details |-> errorDetails(message)],
                                !.isLoading = FALSE], selectedSchool))
  /\ UNCHANGED clock

\* typeof window[name] !== 'undefined'
Available(name) == IF name = "google" THEN google # "undefined" ELSE Papa

\* variant: an interval callback that forgets to count the miss
attemptsStuck(attempts) == attempts

\* attempts++ in the interval callback

attemptsAfterMiss(attempts) == attempts + 1

\* one tick of the setInterval callback of waitForLibrary, with what loadData
\* does when the promise settles on that tick
Poll(l) ==
  /\ l \in loads
  /\ l.waiting \in {"google", "Papa"}
  /\ UNCHANGED <<searchTerm, started, google, Papa, results, settled>>
  /\ IF Available(l.waiting)
       THEN IF l.waiting = "google" /\ google = "nomaps"
              THEN loadDataFails(l, NoMapsMessage, "nomaps")
              ELSE /\ loads' = (loads \ {l}) \cup
                         {[l EXCEPT !.waiting = IF l.waiting = "google" THEN "Papa" ELSE "fetch",
                                    !.attempts = 0]}
                   /\ UNCHANGED <<appVars, clock, mc, mapsConstructed, completed>>
       ELSE IF attemptsAfterMiss(l.attempts) > maxAttempts
              THEN loadDataFails(l, TimeoutMessage(l.waiting), "timeout")
              ELSE /\ loads' = (loads \ {l}) \cup {[l EXCEPT !.attempts = attemptsAfterMiss(l.attempts)]}
                   /\ UNCHANGED <<appVars, clock, mc, mapsConstructed, completed>>

\* Papa.parse calls complete(results)
FetchComplete(l, data) ==
  /\ l \in loads
  /\ l.waiting = "fetch"
  /\ results' = data
  /\ settled' = complete(data, l.load)
  /\ IF settled'.resolved
       THEN loadDataSucceeds(l, settled'.value, "rows")
       ELSE loadDataFails(l, settled'.message, "parse")
  /\ UNCHANGED <<searchTerm, started, google, Papa>>

\* Papa.parse calls error(error)
FetchError(l, msg) ==
  /\ l \in loads
  /\ l.waiting = "fetch"
  /\ settled' = PapaError(msg)
  /\ loadDataFails(l, settled'.message, "fetch")
  /\ UNCHANGED <<searchTerm, started, google, Papa, results>>

\* onChange={(e) => setSearchTerm(e.target.value)}
SetSearchTerm(t) ==
  /\ ControlsOffered
  /\ t # searchTerm
  /\ searchTerm' = t
  /\ Rendered(Commit(Ui, selectedSchool))
  /\ UNCHANGED <<lastUpdated, loads, started, clock, google, Papa, completed, results, settled>>

\* variant: the last match instead of the first
findLast(ss, lowerCaseSearchTerm) ==
  LET hits == {i \in 1..Len(ss) : Includes(ToLowerCase(ss[i].name), lowerCaseSearchTerm)}
  IN  IF hits = {} THEN NULL ELSE ss[CHOOSE i \in hits : \A j \in hits : j <= i]

\* schools.find(school => school.name.toLowerCase().includes(lowerCaseSearchTerm))
find(ss, lowerCaseSearchTerm) ==
  LET hits == {i \in 1..Len(ss) : Includes(ToLowerCase(ss[i].name), lowerCaseSearchTerm)}
  IN  IF hits = {} THEN NULL ELSE ss[CHOOSE i \in hits : \A j \in hits : i <= j]

\* variant: a search without the blank-input guard
handleSearchUnguarded(ss, term) == find(ss, ToLowerCase(term))

\* what handleSearch passes to setSelectedSchool
handleSearch(ss, term) ==
  IF Trim(term) = <<>> THEN NULL ELSE find(ss, ToLowerCase(term))

\* the state after handleSearch ran on a submit of the form with the given input
onSubmit(r, term) == Updated(r, [r EXCEPT !.selectedSchool = handleSearch(r.schools, term)])

\* <form onSubmit={handleSearch}>
Search ==
  /\ ControlsOffered
  /\ Rendered(onSubmit(Ui, searchTerm))
  /\ UNCHANGED <<searchTerm, lastUpdated, loads, started, clock, google, Papa, completed,
                 results, settled>>

\* the state after a click on marker m: its listener runs, then React renders
\* if the selection changed
onMarkerClick(r0, m) ==
  LET r == clickListener(r0, m)
  IN  IF r.selectedSchool = r0.selectedSchool THEN r ELSE Commit(r, r0.selectedSchool)

\* the user clicks a marker shown on the map
MarkerClick(m) ==
  /\ mc.mounted /\ mc.map # 0
  /\ m \in mc.onMap
  /\ Rendered(onMarkerClick(Ui, m))
  /\ UNCHANGED <<searchTerm, lastUpdated, loads, started, clock, google, Papa, completed,
                 results, settled>>

\* the pointer moves over a marker shown on the map
MarkerHover(m) ==
  /\ mc.mounted /\ mc.map # 0
  /\ m \in mc.onMap
  /\ mc' = [mc EXCEPT !.popup = m]
  /\ UNCHANGED <<appVars, loads, started, clock, google, Papa, mapsConstructed, completed,
                 results, settled>>

\* the page's script tags finish loading
GoogleScriptLoads(to) ==
  /\ google # "ok"
  /\ to # google
  /\ google' = to
  /\ UNCHANGED <<appVars, loads, started, clock, Papa, mc, mapsConstructed, completed,
                 results, settled>>

PapaScriptLoads ==
  /\ ~Papa
  /\ Papa' = TRUE
  /\ UNCHANGED <<appVars, loads, started, clock, google, mc, mapsConstructed, completed,
                 results, settled>>

Next ==
  \/ Mount
  \/ Refresh
  \/ \E l \in loads : Poll(l)
  \/ \E l \in loads, data \in Datasets : FetchComplete(l, data)
  \/ \E l \in loads, msg \in PapaMessages : FetchError(l, msg)
  \/ \E t \in TermPool : SetSearchTerm(t)
  \/ Search
  \/ \E m \in mc.onMap : MarkerClick(m)
  \/ \E m \in mc.onMap : MarkerHover(m)
  \/ \E to \in {"nomaps", "ok"} : GoogleScriptLoads(to)
  \/ PapaScriptLoads

Spec == Init /\ [][Next]_vars

\* setInterval keeps firing while a waitForLibrary interval is set
\* and the mount effect runs
FairSpec == Spec /\ WF_vars(Mount) /\ WF_vars(\E l \in loads : Poll(l))

\* ------------------------------------------- the record mapper on its own
Absent == <<"(absent)">>

\* a row with the given cells; a cell given as Absent is a key the row lacks
RowOf(lat, lng, status) ==
  LET all == (COL_LAT :> lat) @@ (COL_LNG :> lng) @@ (COL_STATUS :> status)
  IN  [c \in {c \in DOMAIN all : all[c] # Absent} |-> all[c]]

CoordCells ==
  {Absent, <<>>, <<"1">>, <<"-", "2">>, <<SP, "3">>, <<"1", "x">>, <<"x", "1">>, <<"Infinity">>}

StatusCells ==
  {Absent, <<>>, <<"Defined">>, <<SP, "Pending", SP>>, <<"No", SP, "Service">>, <<"defined">>,
   <<"No", "Service">>, <<"Pending", "x">>, <<"Defined", SP>>}

MapperRows ==
  {RowOf(lat, <<"2">>, <<"Defined">>) : lat \in CoordCells}
    \cup {RowOf(<<"1">>, lng, <<"Pending">>) : lng \in CoordCells}
    \cup {RowOf(<<"1">>, <<"2">>, st) : st \in StatusCells}
    \cup {RowOf(<<"x">>, <<"2">>, <<"bogus">>)}

MapperInit ==
  /\ InitApp
  /\ results \in SeqsUpTo(MapperRows, MaxRows)
  /\ settled = NULL

\* Papa.parse calls complete(results) on the drawn rows
MapperComplete ==
  /\ settled = NULL
  /\ settled' = complete(results, 0)
  /\ UNCHANGED <<appVars, loads, started, clock, google, Papa, mc, mapsConstructed,
                 completed, results>>

MapperNext == MapperComplete

MapperSpec == MapperInit /\ [][MapperNext]_vars

\* ---------------------------------------- the address assembly on its own
MainSt == <<"123", SP, "Main", SP, "St">>

\* a keepable row with the given address cells; Absent is a key the row lacks
AddressRow(street, city, state, zip) ==
  LET all == (COL_ADDRESS :> street) @@ (COL_CITY :> city) @@ (COL_STATE :> state)
               @@ (COL_ZIP :> zip)
  IN  [c \in {c \in DOMAIN all : all[c] # Absent} |-> all[c]]
        @@ RowOf(<<"1">>, <<"2">>, <<"Defined">>)

StreetCells == {Absent, <<>>, MainSt, <<SP>>}
CityCells == {Absent, <<>>, <<"Brooklyn">>}
StateCells == {Absent, <<>>, <<"NY">>}
ZipCells == {Absent, <<>>, <<"11201">>}

AddressInit ==
  /\ InitApp
  /\ \E street \in StreetCells, city \in CityCells, state \in StateCells, zip \in ZipCells :
       results = <<AddressRow(street, city, state, zip)>>
  /\ settled = NULL

AddressSpec == AddressInit /\ [][MapperNext]_vars

\* ================================================================== claims
Last(q) == q[Len(q)]
Ids(ss) == {ss[i].id : i \in 1..Len(ss)}

\* the entities of a collection that were made from row i (counted from 1)
MadeFrom(ss, i) == {k \in 1..Len(ss) : IdIndex(ss[k].id) = i - 1}

Spaces(n) == [i \in 1..n |-> SP]

\* cell is core with white space before and after it
Padded(cell, core) ==
  \E a \in 0..Len(cell), b \in 0..Len(cell) : cell = Spaces(a) \o core \o Spaces(b)

\* the recognized status values a row's Status cell spells
Recognized(row) ==
  {core \in StatusValues : Has(row, COL_STATUS) /\ Padded(row[COL_STATUS], core)}

CoordsParse(row) == ~isNaN(parseFloat(row, COL_LAT)) /\ ~isNaN(parseFloat(row, COL_LNG))

\* a cell that is a numeral from end to end: white space, a sign, then digits or Infinity
IsNumeral(cell) ==
  LET t == Trim(cell)
      u == IF t # <<>> /\ Head(t) \in {"-", "+"} THEN Tail(t) ELSE t
  IN  u = <<"Infinity">> \/ (u # <<>> /\ \A i \in 1..Len(u) : IsDigit(u[i]))

BadCoordinate(row, col) == ~Has(row, col) \/ ~IsNumeral(row[col])

\* C1: whenever the controller is in Error, the entity collection is empty and
\* the selection is null.
C1_ErrorClearsContent ==
  error # NULL => (schools = <<>> /\ selectedSchool = NULL)

\* C2: a step in which a load completes with rows leaves the controller Ready
\* with the mapped rows as the collection, a null selection and a timestamp.
C2_SuccessResetsSelection ==
  [][(Len(completed') = Len(completed) + 1 /\ Last(completed').kind = "rows")
       => (/\ ~isLoading'
           /\ error' = NULL
           /\ schools' = settled'.value
           /\ selectedSchool' = NULL
           /\ lastUpdated' # NULL)]_vars

\* C3: loads complete in the order they started, and the collection, the error
\* and the timestamp are those written by the newest-started load that has
\* completed: no older load's result stands in their place.
NewestCompleted ==
  CHOOSE k \in 1..Len(completed) : \A j \in 1..Len(completed) : completed[j].load <= completed[k].load

C3_NewestResultStands ==
  completed # <<>> =>
    LET k == NewestCompleted
        n == completed[k]
    IN  /\ \A i, j \in 1..Len(completed) : i < j => completed[i].load < completed[j].load
        /\ IF n.kind = "rows"
             THEN /\ \A i \in 1..Len(schools) : schools[i].load = n.load
                  /\ lastUpdated = Date(Cardinality({j \in 1..k : completed[j].kind = "rows"}))
             ELSE /\ lastUpdated = NULL
                  /\ (loads = {} => error # NULL)

C3_Witness ==
  /\ Len(completed) >= 2
  /\ \A j \in 1..Len(completed) : completed[j].kind = "rows"
  /\ schools # <<>>
  /\ schools[1].load = 2
  /\ lastUpdated = Date(2)

\* C4: if the map library (window.google with its maps object) or the parsing
\* library never becomes available, no wait misses more than maxAttempts polls
\* without settling, and every Loading state leads to an Error state whose
\* message names a capability that is unavailable at that moment.
ErrorNamesUnavailable ==
  /\ error # NULL
  /\ \/ error.message = TimeoutMessage("google") /\ google = "undefined"
     \/ error.message = TimeoutMessage("Papa") /\ ~Papa
     \/ error.message = NoMapsMessage /\ google = "nomaps"

C4_CapabilityTimeoutEndsInError ==
  ([](google # "ok") \/ [](~Papa)) =>
     /\ [](\A l \in loads : l.attempts <= maxAttempts)
     /\ (isLoading ~> (~isLoading /\ ErrorNamesUnavailable))

C4_Witness ==
  /\ ~isLoading
  /\ error # NULL
  /\ error.message = TimeoutMessage("Papa")
  /\ google = "ok"
  /\ ~Papa

\* C5: while the map is initialized, the markers shown are exactly the markers
\* of the current entities and the registry's keys are the current identifiers.
C5_MarkersMatchCollection ==
  (mc.mounted /\ mc.map # 0) =>
     (mc.onMap = Range(schools) /\ DOMAIN mc.markers = Ids(schools))

\* C6: the map widget is constructed at most once.
C6_MapConstructedOnce == mapsConstructed <= 1

\* C7: every School of the collection has finite coordinates and a status of the
\* enumeration.
C7_SchoolsFiniteAndEnumerated ==
  \A i \in 1..Len(schools) :
    /\ isFinite(schools[i].latitude)
    /\ isFinite(schools[i].longitude)
    /\ schools[i].status \in StatusValues

\* C8: a row whose Latitude or Longitude cell is missing or is not a number from
\* end to end is excluded, and the mapped length is the number of rows minus the
\* number of excluded rows.
C8_NonNumericCoordinatesExcluded ==
  (settled # NULL /\ settled.resolved) =>
    /\ \A i \in 1..Len(results) :
         (BadCoordinate(results[i], COL_LAT) \/ BadCoordinate(results[i], COL_LNG))
           => MadeFrom(settled.value, i) = {}
    /\ Len(settled.value) =
         Len(results) - Cardinality({i \in 1..Len(results) : MadeFrom(settled.value, i) = {}})

\* C9: a row with parseable coordinates is kept exactly when its Status cell is a
\* recognized value with white space around it, and then has that value as status.
C9_StatusDecidesKeeping ==
  settled # NULL =>
    /\ settled.resolved
    /\ \A i \in 1..Len(results) :
         CoordsParse(results[i]) =>
           /\ (MadeFrom(settled.value, i) # {}) <=> (Recognized(results[i]) # {})
           /\ \A k \in MadeFrom(settled.value, i) :
                settled.value[k].status \in Recognized(results[i])

C9_Witness ==
  /\ settled # NULL
  /\ Len(results) = 2
  /\ results[1] = RowOf(<<"1">>, <<"2">>, <<SP, "Pending", SP>>)
  /\ results[2] = RowOf(<<"1">>, <<"2">>, <<"defined">>)
  /\ Len(settled.value) = 1
  /\ settled.value[1].status = SchoolStatus.Pending

\* C10: a load whose fetch delivered rows never fails: the collection is the
\* valid rows of the delivery in their order, whatever rows came with them, and
\* no load ever ends with a mapping failure.
ValidRow(row) == CoordsParse(row) /\ Recognized(row) # {}

Cell(row, col) == IF Has(row, col) THEN row[col] ELSE <<>>

CommaSpace == <<",", SP>>

\* the non-empty members of (street, city, state), in that order, with ", "
\* between neighbours, written out case by case
ExpectedAddress(row) ==
  LET street == Cell(row, COL_ADDRESS)
      city == Cell(row, COL_CITY)
      state == Cell(row, COL_STATE)
      zip == Cell(row, COL_ZIP)
      sc == IF street # <<>> /\ city # <<>> THEN street \o CommaSpace \o city
            ELSE street \o city
      scs == IF sc # <<>> /\ state # <<>> THEN sc \o CommaSpace \o state ELSE sc \o state
  IN  IF zip # <<>> THEN scs \o <<SP>> \o zip ELSE scs

AllPartsEmpty(row) ==
  \A col \in {COL_ADDRESS, COL_CITY, COL_STATE, COL_ZIP} : Cell(row, col) = <<>>

StartsWith(s, t) == Len(s) >= Len(t) /\ SubSeq(s, 1, Len(t)) = t
EndsWith(s, t) == Len(s) >= Len(t) /\ SubSeq(s, Len(s) - Len(t) + 1, Len(s)) = t

\* C11: the assembled address is the non-empty members of (street, city,
\* state) in order joined by ", ", then a space and the zip when there is one;
\* it has no empty segment and no doubled separator, it is
\* "123 Main St, Brooklyn, NY 11201" for the example, and it is the no-data
\* marker when all four parts are empty.
C11_AddressAssembly ==
  (settled # NULL) =>
    /\ settled.resolved /\ Len(settled.value) = 1
    /\ LET row == results[1]
           address == settled.value[1].address
       IN  /\ address = IF AllPartsEmpty(row) THEN NoAddressProvided ELSE ExpectedAddress(row)
           /\ ~Includes(address, CommaSpace \o CommaSpace)
           /\ ~StartsWith(address, CommaSpace)
           /\ ~EndsWith(address, CommaSpace) /\ ~EndsWith(address, <<",">>)
           /\ row = AddressRow(MainSt, <<"Brooklyn">>, <<"NY">>, <<"11201">>) =>
                address = MainSt \o <<",", SP, "Brooklyn", ",", SP, "NY", SP, "11201">>

C11_Witness ==
  /\ settled # NULL
  /\ results = <<AddressRow(MainSt, Absent, <<"NY">>, <<"11201">>)>>
  /\ settled.value[1].address = MainSt \o <<",", SP, "NY", SP, "11201">>

\* two characters that are the same letter in either case
CasePairs == {<<"L", "l">>, <<"I", "i">>, <<"N", "n">>, <<"A", "a">>}
SameIgnoringCase(a, b) == a = b \/ <<a, b>> \in CasePairs \/ <<b, a>> \in CasePairs

\* name contains term as a substring, letters compared without regard to case
ContainsIgnoringCase(name, term) ==
  \E off \in 0..(Len(name) - Len(term)) :
    \A k \in 1..Len(term) : SameIgnoringCase(name[off + k], term[k])

IsBlank(term) == \A k \in 1..Len(term) : term[k] = SP

\* the positions of the entities whose name matches the search input
Matches == {i \in 1..Len(schools) : ContainsIgnoringCase(schools[i].name, searchTerm)}

\* C12: a search with a non-blank input that matches some name sets the
\* selection to the first entity, in collection order, whose name contains the
\* input case-insensitively; no earlier entity matches.
C12_SearchSelectsFirstMatch ==
  [][(Search /\ ~IsBlank(searchTerm) /\ Matches # {})
       => \E i \in Matches :
            /\ selectedSchool' = schools[i]
            /\ \A j \in 1..(i - 1) : j \notin Matches]_vars

C12_Witness ==
  /\ ControlsOffered
  /\ searchTerm = <<"L", "I">>
  /\ Len(schools) = 2
  /\ schools[1].name = <<"I", "n">>
  /\ schools[2].name = <<"L", "i", "n">>
  /\ selectedSchool = schools[2]
  /\ mc.popup = schools[2]

\* C13: a search whose input is blank or matches no name leaves the collection,
\* the error, the loading flag and the timestamp unchanged and sets the
\* selection to null, whatever it was before.
C13_FruitlessSearchClearsSelection ==
  [][(Search /\ (IsBlank(searchTerm) \/ Matches = {}))
       => /\ selectedSchool' = NULL
          /\ UNCHANGED <<schools, error, isLoading, lastUpdated>>]_vars

\* a school had been selected (the view is at the selection zoom) and a search
\* that matches nothing has cleared the selection
C13_Witness ==
  /\ ControlsOffered
  /\ searchTerm = <<"z">>
  /\ schools # <<>>
  /\ selectedSchool = NULL
  /\ mc.zoom = SelectZoom

\* the entity the search form would select now
Found == handleSearch(schools, searchTerm)

\* the view shows entity e: centered on it, at the selection zoom, popup on it
ViewOn(m, e) ==
  /\ m.center = [lat |-> e.latitude, lng |-> e.longitude]
  /\ m.zoom = SelectZoom
  /\ m.popup = e

\* C14: selecting the same entity twice in a row, by two clicks on its marker
\* or by two submits of the same search, ends with the view (center, zoom,
\* popup) and the selection that selecting it once ends with.
C14_SelectingTwiceIsSelectingOnce ==
  /\ (mc.mounted /\ mc.map # 0) =>
       \A m \in mc.onMap :
         LET once == onMarkerClick(Ui, m)
             twice == onMarkerClick(once, m)
         IN  twice.mc = once.mc /\ twice.selectedSchool = once.selectedSchool
  /\ (ControlsOffered /\ Found # NULL) =>
       LET once == onSubmit(Ui, searchTerm)
           twice == onSubmit(once, searchTerm)
       IN  twice.mc = once.mc /\ twice.selectedSchool = once.selectedSchool

\* a state right after a selection, in which the entity can be selected again
\* by the search form and by its marker
C14_Witness ==
  /\ ControlsOffered
  /\ Len(schools) = 2
  /\ selectedSchool = schools[2]
  /\ Found = selectedSchool
  /\ selectedSchool \in mc.onMap
  /\ ViewOn(mc, selectedSchool)

\* C15: after every selection action that selects entity e, by search or by
\* marker click, also when e is already selected and another marker has been
\* hovered since, the view is centered on e at zoom 15 with the popup on e.
C15_SelectionShowsEntity ==
  /\ (mc.mounted /\ mc.map # 0) =>
       \A m \in mc.onMap : ViewOn(onMarkerClick(Ui, m).mc, m)
  /\ (ControlsOffered /\ Found # NULL) => ViewOn(onSubmit(Ui, searchTerm).mc, Found)

\* C16: the remediation hint of the Error state follows the kind of failure: a
\* failure of the map capability (timeout of 'google', or no maps object) gets
\* the API-key hint, a timeout of 'Papa' the parse-library hint, and every fetch
\* or parse failure of the sheet the sheet-URL hint, whatever its message says.
C16_HintFollowsFailureKind ==
  (error # NULL /\ completed # <<>>) =>
    LET kind == Last(completed).kind
    IN  /\ kind \in {"nomaps", "timeout", "fetch", "parse"}
        /\ kind = "nomaps" => error.details = "apiKeyHint"
        /\ kind = "timeout" =>
              \/ error.message = TimeoutMessage("google") /\ error.details = "apiKeyHint"
              \/ error.message = TimeoutMessage("Papa") /\ error.details = "papaParseHint"
        /\ kind \in {"fetch", "parse"} => error.details = "sheetUrlHint"

\* C17: the identifiers of the collection are pairwise distinct, and while the
\* map is initialized the marker registry holds exactly as many markers as the
\* collection has entities.
C17_DistinctIdsFillRegistry ==
  /\ \A i, j \in 1..Len(schools) : schools[i].id = schools[j].id => i = j
  /\ (mc.mounted /\ mc.map # 0) => Cardinality(DOMAIN mc.markers) = Len(schools)

\* C18: at most one load is in flight at any time; while a load is in flight
\* the loading flag is up and the refresh control cannot be activated.
C18_SingleFlight ==
  /\ Cardinality(loads) <= 1
  /\ loads # {} => (isLoading /\ ~RefreshEnabled)

\* a refresh is in flight over a shown map, and the control is not available
C18_Witness ==
  /\ started = 2
  /\ Cardinality(loads) = 1
  /\ schools # <<>>
  /\ mc.mounted
  /\ ~RefreshEnabled

\* the step ends load l with a timeout rejection
RejectsByTimeout(l) ==
  /\ l \notin loads'
  /\ Len(completed') = Len(completed) + 1
  /\ Last(completed') = [load |-> l.load, kind |-> "timeout"]

\* C19: a poll that finds the library resolves the wait; a poll that does not
\* find it rejects exactly when it is the 50th consecutive miss; a settled wait
\* is gone (it neither polls nor settles again).
C19_FiftiethMissRejects ==
  [][\A l \in loads :
       Poll(l) =>
         IF Available(l.waiting)
           THEN /\ ~RejectsByTimeout(l)
                /\ \A k \in loads' : ~(k.load = l.load /\ k.waiting = l.waiting)
           ELSE /\ RejectsByTimeout(l) <=> (l.attempts + 1 = maxAttempts)
                /\ (l \notin loads' /\ ~RejectsByTimeout(l)) =>
                      \E k \in loads' : k = [l EXCEPT !.attempts = l.attempts + 1]]_vars

\* C20: Error is absorbing.  While the error is set, no load is in flight, the
\* refresh control and the search form are not offered and the map is not
\* rendered, and no step changes the controller state: the error, with its
\* message, stays for the rest of the session.
C20_ErrorIsAbsorbing ==
  /\ [](error # NULL =>
          /\ ~isLoading /\ loads = {}
          /\ ~ControlsOffered /\ ~RefreshEnabled
          /\ ~mc.mounted /\ mc.onMap = {})
  /\ [][error # NULL => (error' = error /\ UNCHANGED appVars)]_vars

\* the map library arrived after the wait for it had timed out: still Error
C20_Witness ==
  /\ error # NULL
  /\ error.message = TimeoutMessage("google")
  /\ google = "ok"
  /\ ~isLoading

\* nothing is left to do: one more render runs no effect that changes anything
Quiescent(r) == RenderOnce(r, r.selectedSchool) = r

\* the chain from handler result r (previous selection prev) ends after at most
\* two renders in a quiescent state
ChainEnds(r, prev) == Renders(r, prev) <= 2 /\ Quiescent(Commit(r, prev))

\* C21: after a marker click, a search that finds an entity, or the completion
\* of a load, the chain of renders, marker redraws and programmatic clicks ends
\* after finitely many (at most two) renders in a quiescent state, with the
\* selection on the entity whose marker was clicked.
C21_SelectionLoopTerminates ==
  /\ (mc.mounted /\ mc.map # 0) =>
       \A m \in mc.onMap :
         /\ ChainEnds(clickListener(Ui, m), selectedSchool)
         /\ Quiescent(onMarkerClick(Ui, m))
         /\ onMarkerClick(Ui, m).selectedSchool = m
         /\ onMarkerClick(Ui, m).mc.popup = m
  /\ (ControlsOffered /\ Found # NULL) =>
       /\ ChainEnds([Ui EXCEPT !.selectedSchool = Found], selectedSchool)
       /\ Quiescent(onSubmit(Ui, searchTerm))
       /\ onSubmit(Ui, searchTerm).selectedSchool = Found
       /\ (Found # selectedSchool) => onSubmit(Ui, searchTerm).mc.popup = Found
  /\ \A l \in loads, data \in Datasets :
       l.waiting = "fetch" =>
         LET r == [Ui EXCEPT !.schools = complete(data, l.load).value, !.isLoading = FALSE]
             end == Commit(r, selectedSchool)
         IN  /\ ChainEnds(r, selectedSchool)
             /\ (end.selectedSchool # selectedSchool) =>
                   /\ end.selectedSchool \in Range(end.mc.markers)
                   /\ end.mc.popup = end.selectedSchool

\* a search has moved the selection from one entity to another: the selection
\* effect clicked the found entity's marker and the chain has come to rest
C21_Witness ==
  /\ ControlsOffered
  /\ Len(schools) = 2
  /\ searchTerm = <<"L", "I">>
  /\ selectedSchool = schools[2]
  /\ ViewOn(mc, schools[2])
  /\ schools[1] \in mc.onMap
  /\ Quiescent(Ui)

====
